---- MODULE Spec2Model ----
(***************************************************************************)
(* Model of src/app.py, the Streamlit health advisor: the module-level     *)
(* knowledge-base initialisation, analyze_health, generate_diet_plan and   *)
(* main.                                                                   *)
(*                                                                         *)
(* Text is a sequence of atoms.  An atom is one significant character      *)
(* (a digit, "/", "-", "_", "+", a whitespace character) or an opaque      *)
(* chunk of text that neither starts nor ends with whitespace and does not *)
(* start with "-".  Integers are weight in kg, height in cm; a BMI rounded *)
(* to one decimal is kept in tenths (24.2 is 242).                         *)
(***************************************************************************)
EXTENDS Integers, Sequences, FiniteSets, TLC

VARIABLES
    health_index,   \* module global of line 79: "index", "None", or "unset" before the first run
    persisted,      \* whether health_index/docstore.json exists on disk
    clock,          \* datetime.now() of the latest script run; counts the runs
    rank,           \* the store's ranking, query -> retrieved documents, as far as observed
    screen,         \* what the latest script run put on the page
    log,            \* pairs <<inputs, plan text>> of the requests that showed a plan
    call            \* the latest direct call of a function, with its outcome

vars == <<health_index, persisted, clock, rank, screen, log, call>>

----------------------------------------------------------------------------
(* Bounds of the model. *)

MaxRuns == 2
MaxBpLen == 3
MaxCtxLen == 6

----------------------------------------------------------------------------
(* Characters and strings. *)

NL == "\n"

Whitespace == {" ", "\t", "\r", "\f", NL}

Digits == <<"0", "1", "2", "3", "4", "5", "6", "7", "8", "9">>

DigitSet == {Digits[i] : i \in 1..10}

DigitVal(c) == (CHOOSE i \in 1..10 : Digits[i] = c) - 1

\* All sequences over alphabet of length at most n.
StringsUpTo(alphabet, n) == UNION {[1..k -> alphabet] : k \in 0..n}

RECURSIVE Concat(_)
\* "".join(parts)
Concat(parts) ==
    IF parts = <<>> THEN <<>> ELSE Head(parts) \o Concat(Tail(parts))

RECURSIVE Join(_, _)
\* sep.join(parts)
Join(sep, parts) ==
    IF parts = <<>> THEN <<>>
    ELSE IF Len(parts) = 1 THEN parts[1]
    ELSE parts[1] \o sep \o Join(sep, Tail(parts))

\* The positions of s whose atom satisfies test, in increasing order.
Positions(s, test(_)) ==
    LET hit(i) == test(s[i]) IN SelectSeq([i \in 1..Len(s) |-> i], hit)

\* s.split(sep) for a one-character separator: the pieces between the separators,
\* always at least one piece.
Split(s, sep) ==
    LET isSep(c) == c = sep
    IN  \* cuts: position 0, the separators, position Len(s)+1
        LET cuts == <<0>> \o Positions(s, isSep) \o <<Len(s) + 1>>
        IN  [k \in 1..(Len(cuts) - 1) |-> SubSeq(s, cuts[k] + 1, cuts[k + 1] - 1)]

\* s.strip()
Strip(s) ==
    LET isSolid(c) == c \notin Whitespace
        solid == Positions(s, isSolid)
    IN  IF solid = <<>> THEN <<>> ELSE SubSeq(s, solid[1], solid[Len(solid)])

\* s.startswith("- ")
StartsWithMarker(s) == Len(s) >= 2 /\ s[1] = "-" /\ s[2] = " "

RECURSIVE IntToAtomsNat(_)
IntToAtomsNat(n) ==
    IF n < 10 THEN <<Digits[n + 1]>>
    ELSE Append(IntToAtomsNat(n \div 10), Digits[(n % 10) + 1])

\* str(n) of an int
IntToAtoms(n) == IF n < 0 THEN <<"-">> \o IntToAtomsNat(0 - n) ELSE IntToAtomsNat(n)

\* str(x) of a float that holds a whole number of tenths: 242 is "24.2", 250 is "25.0"
FloatToAtoms(t) ==
    LET a == IF t < 0 THEN 0 - t ELSE t
    IN  (IF t < 0 THEN <<"-">> ELSE <<>>)
        \o IntToAtomsNat(a \div 10) \o <<".", Digits[(a % 10) + 1]>>

RECURSIVE DigitsValue(_, _)
DigitsValue(s, acc) ==
    IF s = <<>> THEN acc
    ELSE IF Head(s) = "_" THEN DigitsValue(Tail(s), acc)
    ELSE DigitsValue(Tail(s), 10 * acc + DigitVal(Head(s)))

\* int() of a string t that has no surrounding whitespace.
ParseIntStripped(t) ==
    LET signed == t # <<>> /\ t[1] \in {"+", "-"}
        body == IF signed THEN Tail(t) ELSE t
        wellFormed ==
            /\ body # <<>>
            /\ \A i \in 1..Len(body) : body[i] \in DigitSet \cup {"_"}
            /\ body[1] \in DigitSet
            /\ body[Len(body)] \in DigitSet
            /\ \A i \in 1..(Len(body) - 1) : ~(body[i] = "_" /\ body[i + 1] = "_")
    IN  IF wellFormed
        THEN [ok |-> TRUE,
              val |-> IF signed /\ t[1] = "-" THEN 0 - DigitsValue(body, 0)
                      ELSE DigitsValue(body, 0)]
        ELSE [ok |-> FALSE, val |-> 0]

\* int(s): surrounding whitespace, one optional sign, decimal digits that may be
\* grouped by single underscores.  ok = FALSE is the ValueError.
ParseInt(s) == ParseIntStripped(Strip(s))

\* The unpacking of two converted pieces.
BpPair(first, second) ==
    IF first.ok /\ second.ok
    THEN [ok |-> TRUE, systolic |-> first.val, diastolic |-> second.val]
    ELSE [ok |-> FALSE, systolic |-> 0, diastolic |-> 0]

\* systolic, diastolic = map(int, parts)
UnpackBp(parts) ==
    IF Len(parts) = 2 THEN BpPair(ParseInt(parts[1]), ParseInt(parts[2]))
    ELSE [ok |-> FALSE, systolic |-> 0, diastolic |-> 0]

\* systolic, diastolic = map(int, bp.split('/')): ok = FALSE when the unpacking or
\* either int() raises ValueError.
ParseBp(bp) == UnpackBp(Split(bp, "/"))

----------------------------------------------------------------------------
(* Health calculations. *)

\* weight / ((height/100) ** 2) as the exact fraction num/den; height = 0 raises
\* ZeroDivisionError.
calculate_bmi(weight, height) ==
    IF height = 0
    THEN [raised |-> "ZeroDivisionError", num |-> 0, den |-> 1]
    ELSE [raised |-> "none", num |-> weight * 10000, den |-> height * height]

\* A variant of Round1 that cuts the BMI to one decimal instead of rounding it.
Round1_Truncate(num, den) ==
    IF num >= 0 THEN (10 * num) \div den
    ELSE 0 - ((10 * (0 - num)) \div den)

\* round(x, 1) in tenths, x = num/den with den > 0: the nearest tenth, a tie going
\* to the even tenth.  The float quotient differs from num/den by less than any
\* distance of num/den from a midpoint between tenths, except when num/den is such
\* a midpoint; for weights up to 300 kg and heights from 100 to 259 cm that is the
\* case only for heights 160 (never next to 18.5, 25 or 30) and 200 (where the
\* float is exact and the tie goes to the even tenth, as here).
Round1(num, den) ==
    LET p == 10 * num
        fl == IF p >= 0 THEN p \div den ELSE 0 - (((0 - p) + den - 1) \div den)
        rem == p - fl * den
    IN  IF 2 * rem < den THEN fl
        ELSE IF 2 * rem > den THEN fl + 1
        ELSE IF fl % 2 = 0 THEN fl ELSE fl + 1

BpError == "Invalid blood pressure format. Use systolic/diastolic (e.g., 120/80)"

\* A variant of BmiLabels with independent ifs whose brackets close on both sides.
BmiLabels_IndependentIfs(bmi) ==
    (IF bmi <= 185 THEN <<"Underweight">> ELSE <<>>)
    \o (IF 185 <= bmi /\ bmi <= 250 THEN <<"Normal weight">> ELSE <<>>)
    \o (IF 250 <= bmi /\ bmi <= 300 THEN <<"Overweight">> ELSE <<>>)
    \o (IF bmi >= 300 THEN <<"Obese">> ELSE <<>>)

\* Lines 93-100: the labels the BMI classification appends, bmi in tenths.
BmiLabels(bmi) ==
    IF bmi < 185 THEN <<"Underweight">>
    ELSE IF 185 <= bmi /\ bmi < 250 THEN <<"Normal weight">>
    ELSE IF 250 <= bmi /\ bmi < 300 THEN <<"Overweight">>
    ELSE <<"Obese">>

\* A variant of BpLabels whose thresholds are exclusive.
BpLabels_Exclusive(parsed) ==
    IF parsed.ok /\ (parsed.systolic > 140 \/ parsed.diastolic > 90)
    THEN <<"Hypertension">> ELSE <<>>

\* Lines 103-108: the labels the blood pressure analysis appends, parsed being the
\* outcome of line 104; nothing when the string does not parse (the bare except
\* swallows the ValueError).
BpLabels(parsed) ==
    IF parsed.ok /\ (parsed.systolic >= 140 \/ parsed.diastolic >= 90)
    THEN <<"Hypertension">> ELSE <<>>

\* Lines 107-108: the st.error of the except branch.
BpErrors(parsed) == IF parsed.ok THEN <<>> ELSE <<BpError>>

\* Lines 112-113.
SugarLabels(sugar) == IF sugar >= 126 THEN <<"High Blood Sugar">> ELSE <<>>

\* Lines 116-117.
CholesterolLabels(cholesterol) ==
    IF cholesterol >= 200 THEN <<"High Cholesterol">> ELSE <<>>

\* A variant of Analysis without the try around the blood pressure analysis.
Analysis_Unguarded(age, b, parsed, sugar, cholesterol) ==
    IF b.raised # "none"
    THEN [raised |-> b.raised, results |-> [age |-> age], errors |-> <<>>]
    ELSE IF ~parsed.ok
    THEN [raised |-> "ValueError", results |-> [age |-> age], errors |-> <<>>]
    ELSE [raised |-> "none",
          results |-> [bmi |-> Round1(b.num, b.den),
                       conditions |-> BmiLabels(Round1(b.num, b.den))
                                      \o BpLabels(parsed)
                                      \o SugarLabels(sugar)
                                      \o CholesterolLabels(cholesterol),
                       age |-> age],
          errors |-> <<>>]

\* Lines 86-119, b being the outcome of calculate_bmi and parsed that of line 104.
Analysis(age, b, parsed, sugar, cholesterol) ==
    IF b.raised # "none"
    THEN [raised |-> b.raised, results |-> [age |-> age], errors |-> <<>>]
    ELSE [raised |-> "none",
          results |-> [bmi |-> Round1(b.num, b.den),
                       conditions |-> BmiLabels(Round1(b.num, b.den))
                                      \o BpLabels(parsed)
                                      \o SugarLabels(sugar)
                                      \o CholesterolLabels(cholesterol),
                       age |-> age],
          errors |-> BpErrors(parsed)]

\* raised: the exception that leaves the function, "none" when it returns;
\* results: the returned dict; errors: the st.error calls made.
analyze_health(age, weight, height, bp, sugar, cholesterol) ==
    Analysis(age, calculate_bmi(weight, height), ParseBp(bp), sugar, cholesterol)

----------------------------------------------------------------------------
(* Health knowledge base. *)

\* The indentation of the continuation lines of the document literals.
Indent == [i \in 1..16 |-> " "]

\* A document text of lines 39-69: its first line, then the indented lines.
DocText(first, criteria, bullets) ==
    LET bullet(b) == <<NL>> \o Indent \o <<"-", " ", b>>
    IN  <<first, NL>> \o Indent \o <<criteria, NL>> \o Indent \o <<"Recommendations:">>
        \o Concat([i \in 1..Len(bullets) |-> bullet(bullets[i])])

\* Lines 38-70.
Documents == <<
    DocText("Condition: Hypertension | High Blood Pressure",
            "Diagnostic Criteria: BP > 140/90 mmHg",
            <<"Sodium restriction <1500mg/day",
              "Potassium-rich foods: bananas, spinach, sweet potatoes",
              "Whole grains and lean proteins",
              "Limit alcohol/caffeine">>),
    DocText("Condition: Diabetes | High Blood Sugar",
            "Diagnostic Criteria: Fasting glucose > 126 mg/dL",
            <<"Low glycemic index foods",
              "Balanced carbohydrate distribution",
              "High fiber intake",
              "Healthy fats: avocado, nuts">>),
    DocText("Condition: Hyperlipidemia | High Cholesterol",
            "Diagnostic Criteria: LDL > 130 mg/dL",
            <<"Reduce saturated fats",
              "Omega-3 sources: fish, flaxseeds",
              "Soluble fiber: oats, beans",
              "Plant sterols/stanols">>),
    DocText("Condition: Weight Management",
            "Diagnostic Criteria: BMI > 25",
            <<"Calorie deficit: 500-750 kcal/day",
              "High protein intake",
              "Portion control",
              "Regular exercise">>) >>

----------------------------------------------------------------------------
(* Diet generation.  The atoms of the plan text are the literal pieces of    *)
(* the template and the values formatted into it.                            *)

\* Lines 125-129.
DefaultRecommendations == <<
    <<"Balanced nutrition with variety of foods">>,
    <<"Stay hydrated (8 glasses of water daily)">>,
    <<"Regular meal timings">> >>

\* Lines 144-150, in insertion order.
MealPlan == <<
    <<"Breakfast", "Whole grain cereal with fruits and nuts">>,
    <<"Morning Snack", "Greek yogurt or fresh fruit">>,
    <<"Lunch", "Grilled protein with vegetables and quinoa">>,
    <<"Afternoon Snack", "Vegetable sticks with hummus">>,
    <<"Dinner", "High-fiber meal with lean protein and salad">> >>

\* Lines 167-170.
LifestyleAdvice == <<
    "- Engage in 30 minutes of moderate exercise daily",
    "- Practice stress-reduction techniques",
    "- Get 7-8 hours of quality sleep",
    "- Regular health checkups" >>

PlanFooter == "*Based on analysis of your health metrics and medical guidelines*"

\* The atoms that occur in a text.
Atoms(text) == {text[i] : i \in 1..Len(text)}

\* [f(x) for x in xs]
Map(f(_), xs) == [i \in 1..Len(xs) |-> f(xs[i])]

\* A variant of ComposeRecommendations that adds the extracted lines to the base list.
ComposeRecommendations_Merged(context) ==
    LET line(l) == Strip(l)
        stripped == Map(line, Split(context, NL))
    IN  DefaultRecommendations \o SelectSeq(stripped, StartsWithMarker)

\* Lines 125-141: the value of recommendations when the template is formatted.
ComposeRecommendations(context) ==
    IF context # <<>>
    THEN LET line(l) == Strip(l)
             stripped == Map(line, Split(context, NL))
             context_recommendations == SelectSeq(stripped, StartsWithMarker)
         IN  IF context_recommendations # <<>> THEN context_recommendations
             ELSE DefaultRecommendations
    ELSE DefaultRecommendations

\* A variant of PlanTitle that dates the plan.
PlanTitle_Dated(health_data) ==
    <<"## Personalized Diet Plan for ">> \o IntToAtoms(health_data.age)
    \o <<" Year Old", " generated at ">> \o IntToAtoms(clock)

\* Line 154.
PlanTitle(health_data) ==
    <<"## Personalized Diet Plan for ">> \o IntToAtoms(health_data.age)
    \o <<" Year Old">>

\* Lines 153-173: the f-string.
PlanText(health_data, recommendations) ==
    LET bullet(rec) == <<"-", " ">> \o rec
        slot(m) == <<"**", m[1], ":** ", m[2]>>
        one(x) == <<x>>
    IN  <<NL>> \o PlanTitle(health_data)
        \o <<NL, NL, "### Health Summary:", NL, "- **BMI:** ">>
        \o FloatToAtoms(health_data.bmi)
        \o <<" (", health_data.conditions[1], ")", NL, "- **Identified Conditions:** ">>
        \o Join(<<", ">>, Map(one, health_data.conditions))
        \o <<NL, NL, "### Dietary Recommendations:", NL>>
        \o Join(<<NL>>, Map(bullet, recommendations))
        \o <<NL, NL, "### Sample Daily Meal Plan:", NL>>
        \o Join(<<NL>>, Map(slot, MealPlan))
        \o <<NL, NL, "### Lifestyle Advice:", NL>>
        \o Join(<<NL>>, Map(one, LifestyleAdvice))
        \o <<NL, NL, PlanFooter, NL>>

\* The subscripts of the f-string that raise KeyError or IndexError.
RenderRaises(health_data) ==
    \/ "age" \notin DOMAIN health_data
    \/ "bmi" \notin DOMAIN health_data
    \/ "conditions" \notin DOMAIN health_data
    \/ health_data.conditions = <<>>

\* A variant of Rendered that gives back what it had built when the formatting
\* failed.
Rendered_Partial(health_data, recommendations) ==
    IF RenderRaises(health_data)
    THEN [isNone |-> FALSE,
          text |-> <<NL, "## Personalized Diet Plan for ">>,
          recommendations |-> recommendations]
    ELSE [isNone |-> FALSE,
          text |-> PlanText(health_data, recommendations),
          recommendations |-> recommendations]

\* Lines 143-176: the formatting inside the try, and the except branch.
\* isNone: the function returned None; text: the returned string;
\* recommendations: the local of that name.
Rendered(health_data, recommendations) ==
    IF RenderRaises(health_data)
    THEN [isNone |-> TRUE, text |-> <<>>, recommendations |-> recommendations]
    ELSE [isNone |-> FALSE,
          text |-> PlanText(health_data, recommendations),
          recommendations |-> recommendations]

\* Lines 122-176.
generate_diet_plan(health_data, context) ==
    Rendered(health_data, ComposeRecommendations(context))

GenerateFailed == "Failed to generate plan. Please try again."

\* Line 214, without its leading check mark.
SuccessMessage == "Your personalized plan is ready!"

BlankScreen ==
    [errors |-> <<>>, success |-> <<>>, markdown |-> <<>>,
     download |-> <<>>, disclaimer |-> FALSE]

\* Lines 213-225: what main adds to the page once generate_diet_plan has returned,
\* at time now.  download is the button's <<data, file name>>.
ShowPlan(page, diet_plan, now) ==
    IF ~diet_plan.isNone /\ diet_plan.text # <<>>
    THEN [page EXCEPT !.success = <<SuccessMessage>>,
                      !.markdown = diet_plan.text,
                      !.download = <<diet_plan.text,
                                     <<"health_plan_">> \o IntToAtoms(now) \o <<".txt">> >>]
    ELSE [page EXCEPT !.errors = Append(@, GenerateFailed)]

----------------------------------------------------------------------------
(* Inputs. *)

\* Blood pressure strings, one atom per character.
BpSamples == {
    <<"1", "4", "0", "/", "9", "0">>,
    <<"1", "3", "9", "/", "8", "9">>,
    <<"1", "4", "0", "/", "8", "9">>,
    <<"1", "3", "9", "/", "9", "0">>,
    <<"1", "2", "0", "/", "8", "0">>,
    <<"1", "5", "0", "/", "9", "5">>,
    <<"a", "b", "c">>,
    <<"1", "2", "0">>,
    <<"1", "/", "2", "/", "3">>,
    <<"1", "5", "0", "/", "a", "b", "c">>,
    <<"a", "b", "c", "/", "9", "5">>,
    <<" ", "1", "4", "0", " ", "/", " ", "9", "0", NL>>,
    <<"1", "_", "4", "0", "/", "8", "0">>,
    <<"1", "4", "_", "_", "0", "/", "8", "0">>,
    <<"+", "1", "5", "0", "/", "8", "0">>,
    <<"-", "5", "/", "8", "0">>,
    <<"1", "4", "0", "/">>,
    <<"1", "4", "0", "/", "/", "9", "0">>,
    <<"1", "4", " ", "0", "/", "9", "0">> }

BpAlphabet == {"1", "9", "/", "a"}

BpInputs == BpSamples \cup StringsUpTo(BpAlphabet, MaxBpLen)

\* <<weight, height>> pairs for direct calls: BMIs well inside each bracket, exactly
\* on 18.5, 25 and 30, just below a boundary, and non-positive values.  None has
\* height 160.
BodyInputs == {
    <<70, 170>>, <<90, 170>>, <<95, 170>>, <<53, 170>>, <<72, 170>>, <<87, 170>>,
    <<74, 200>>, <<81, 180>>, <<30, 100>>, <<120, 200>>,
    <<54, 171>>, <<80, 179>>, <<96, 179>>, <<81, 200>>, <<40, 170>>,
    <<0, 170>>, <<-70, 170>>, <<70, 0>>, <<70, -170>>, <<0, 0>> }

AgeInputs == {18, 100}

SugarInputs == {125, 126}

CholesterolInputs == {199, 200}

----------------------------------------------------------------------------
(* Direct calls of analyze_health: the arguments are drawn first, then the   *)
(* function is applied to them.                                            *)

NoCall == [fn |-> "none", stage |-> "none"]

\* The process before the script has run.
InitApp ==
    /\ health_index = "unset"
    /\ clock = 0
    /\ rank = <<>>
    /\ screen = BlankScreen
    /\ log = {}

InitAnalyze ==
    /\ InitApp
    /\ persisted = FALSE
    /\ \E age \in AgeInputs, body \in BodyInputs, bp \in BpInputs,
          sugar \in SugarInputs, cholesterol \in CholesterolInputs :
        call = [fn |-> "analyze_health", stage |-> "called",
                args |-> [age |-> age, weight |-> body[1], height |-> body[2],
                          bp |-> bp, sugar |-> sugar, cholesterol |-> cholesterol]]

CallAnalyze ==
    /\ call.fn = "analyze_health"
    /\ call.stage = "called"
    /\ call' = [fn |-> "analyze_health", stage |-> "returned", args |-> call.args,
                out |-> analyze_health(call.args.age, call.args.weight,
                                       call.args.height, call.args.bp,
                                       call.args.sugar, call.args.cholesterol)]
    /\ UNCHANGED <<health_index, persisted, clock, rank, screen, log>>

NextAnalyze == CallAnalyze

SpecAnalyze == InitAnalyze /\ [][NextAnalyze]_vars

----------------------------------------------------------------------------
(* Direct calls of the generation stage, lines 211-225 of main with the      *)
(* health data and the context given.                                        *)

HealthDataInputs == {
    [bmi |-> 242, conditions |-> <<"Normal weight">>, age |-> 30],
    [bmi |-> 329, age |-> 45,
     conditions |-> <<"Obese", "Hypertension", "High Blood Sugar", "High Cholesterol">>],
    [bmi |-> 242, conditions |-> <<>>, age |-> 30],
    [bmi |-> 242, age |-> 30] }

ContextAlphabet == {"-", " ", "a", NL}

ContextSamples == {
    <<"-", " ", "a", NL, "a", NL, "-", " ", "b">>,
    <<" ", "\t", "-", " ", "a", " ", "b", "\r", NL, "-", "a", NL, "-", "\t", "a", NL,
      "a", " ", "-", " ", "b", NL, " ", "-", " ", " ", "c", " ">>,
    <<"a", "-", " ", "b", NL, "-", " ", NL, "-">>,
    Documents[1],
    Join(<<NL>>, <<Documents[4], Documents[2]>>) }

ContextInputs == ContextSamples \cup StringsUpTo(ContextAlphabet, MaxCtxLen)

InitGenerate ==
    /\ InitApp
    /\ persisted = FALSE
    /\ \E health_data \in HealthDataInputs, context \in ContextInputs :
        call = [fn |-> "generate_diet_plan", stage |-> "called",
                args |-> [health_data |-> health_data, context |-> context]]

CallGenerate ==
    /\ call.fn = "generate_diet_plan"
    /\ call.stage = "called"
    /\ LET diet_plan == generate_diet_plan(call.args.health_data, call.args.context)
       IN  /\ call' = [fn |-> "generate_diet_plan", stage |-> "returned",
                       args |-> call.args, out |-> diet_plan]
           /\ screen' = ShowPlan(screen, diet_plan, clock)
    /\ UNCHANGED <<health_index, persisted, clock, rank, log>>

NextGenerate == CallGenerate

SpecGenerate == InitGenerate /\ [][NextGenerate]_vars

----------------------------------------------------------------------------
(* The application.  Streamlit executes the script from its first line to    *)
(* its last on every interaction with the page, so each script run executes  *)
(* the module-level statements (line 79 among them) and then main().         *)

TopK == 2

KbInitFailed == "Failed to load health knowledge base"

KbNotLoaded == "Health knowledge base not loaded. Please restart the app."

SystemFailed == "Failed to generate plan. Please check your inputs and try again."

\* Lines 25-77.  docstore_exists: whether health_index/docstore.json is on disk;
\* fault: "none", or where an exception is raised: "early" (mkdir, loading,
\* building the index, or persisting before docstore.json is written) or "late"
\* (persisting, after docstore.json is written).
initialize_health_index(docstore_exists, fault) ==
    IF fault = "none"
    THEN [index |-> "index", docstore |-> TRUE, errors |-> <<>>]
    ELSE [index |-> "None", docstore |-> docstore_exists \/ fault = "late",
          errors |-> <<KbInitFailed>>]

InitFaults == {"none", "early", "late"}

\* What retriever.retrieve gives back is up to similarity_top_k documents of the
\* corpus, best first; which ones is the embedding model's matter.  The rankings
\* tried: no document, one document, and pairs in either order.
Rankings == {r \in {<<>>, <<3>>, <<1, 2>>, <<2, 1>>, <<4, 2>>, <<2, 3, 4>>} :
                Len(r) <= TopK}

\* Lines 186-192: the values the number_input widgets accept.
WidgetsAccept(in) ==
    /\ 18 <= in.age /\ in.age <= 100
    /\ in.weight >= 30
    /\ in.height >= 100
    /\ in.sugar >= 50
    /\ in.cholesterol >= 100

FormInputs == {in \in {
    [age |-> 30, weight |-> 70, height |-> 170, sugar |-> 100, cholesterol |-> 180,
     bp |-> <<"1", "2", "0", "/", "8", "0">>],
    [age |-> 45, weight |-> 95, height |-> 170, sugar |-> 130, cholesterol |-> 210,
     bp |-> <<"1", "5", "0", "/", "9", "5">>],
    [age |-> 45, weight |-> 95, height |-> 170, sugar |-> 130, cholesterol |-> 210,
     bp |-> <<"a", "b", "c">>],
    [age |-> 30, weight |-> 70, height |-> 170, sugar |-> 100, cholesterol |-> 210,
     bp |-> <<"1", "5", "0", "/", "a", "b", "c">>],
    [age |-> 30, weight |-> 80, height |-> 179, sugar |-> 126, cholesterol |-> 180,
     bp |-> <<"1", "/", "2", "/", "3">>],
    [age |-> 30, weight |-> 70, height |-> 170, sugar |-> 130, cholesterol |-> 180,
     bp |-> <<"1", "2", "0">>],
    [age |-> 30, weight |-> 0, height |-> 170, sugar |-> 100, cholesterol |-> 180,
     bp |-> <<"1", "2", "0", "/", "8", "0">>],
    [age |-> 30, weight |-> 70, height |-> 0, sugar |-> 100, cholesterol |-> 180,
     bp |-> <<"1", "2", "0", "/", "8", "0">>] } : WidgetsAccept(in)}

\* "\n".join([n.node.text for n in retrieved_nodes]), line 208.
Context(nodes) == Join(<<NL>>, [i \in 1..Len(nodes) |-> Documents[nodes[i]]])

\* A variant of Pipeline that treats a failed retrieval as an empty one.
Pipeline_Fallback(page, analysis, retrieved, now) ==
    IF analysis.raised # "none"
    THEN [page |-> [page EXCEPT !.errors = Append(@ \o analysis.errors, SystemFailed)],
          trace |-> <<"analyze_health">>,
          health_data |-> analysis.results]
    ELSE [page |-> ShowPlan([page EXCEPT !.errors = @ \o analysis.errors],
                            generate_diet_plan(analysis.results,
                                IF retrieved.raised THEN <<>>
                                ELSE Context(retrieved.nodes)),
                            now),
          trace |-> <<"analyze_health", "retrieve", "generate_diet_plan">>,
          health_data |-> analysis.results]

\* Lines 200-229 once analyze_health has been called: the rest of the try block
\* and the except branch.  analysis: the outcome of analyze_health; retrieved: what
\* retriever.retrieve does, raised or the documents in nodes; now: datetime.now().
\* page: the page afterwards; trace: the stages entered; health_data: the analysis.
Pipeline(page, analysis, retrieved, now) ==
    IF analysis.raised # "none"
    THEN [page |-> [page EXCEPT !.errors = Append(@ \o analysis.errors, SystemFailed)],
          trace |-> <<"analyze_health">>,
          health_data |-> analysis.results]
    ELSE IF retrieved.raised
    THEN [page |-> [page EXCEPT !.errors = Append(@ \o analysis.errors, SystemFailed)],
          trace |-> <<"analyze_health", "retrieve">>,
          health_data |-> analysis.results]
    ELSE [page |-> ShowPlan([page EXCEPT !.errors = @ \o analysis.errors],
                            generate_diet_plan(analysis.results,
                                               Context(retrieved.nodes)),
                            now),
          trace |-> <<"analyze_health", "retrieve", "generate_diet_plan">>,
          health_data |-> analysis.results]

\* Lines 200-229: the try block of main and its except branch.
main_try(page, in, retrieved, now) ==
    Pipeline(page,
             analyze_health(in.age, in.weight, in.height, in.bp, in.sugar,
                            in.cholesterol),
             retrieved, now)

\* The query of line 206; nothing to join when the analysis raised.
Query(health_data) ==
    LET one(x) == <<x>>
    IN  IF "conditions" \in DOMAIN health_data
        THEN Join(<<" ">>, Map(one, health_data.conditions)) ELSE <<>>

InitMain ==
    /\ InitApp
    /\ persisted \in BOOLEAN
    /\ call = NoCall

\* A script run in which the button is not pressed: lines 1-79, then main down to
\* the disclaimer.
Rerun ==
    /\ clock < MaxRuns
    /\ \E fault \in InitFaults :
        LET init == initialize_health_index(persisted, fault)
        IN  /\ health_index' = init.index
            /\ persisted' = init.docstore
            /\ screen' = [BlankScreen EXCEPT !.errors = init.errors,
                                             !.disclaimer = TRUE]
    /\ clock' = clock + 1
    /\ call' = [fn |-> "main", stage |-> "returned", clicked |-> FALSE]
    /\ UNCHANGED <<rank, log>>

\* A script run in which the button is pressed, with the values of the form.
Submit ==
    /\ clock < MaxRuns
    /\ clock' = clock + 1
    /\ \E fault \in InitFaults, in \in FormInputs :
       \E init \in {initialize_health_index(persisted, fault)} :
        /\ health_index' = init.index
        /\ persisted' = init.docstore
        /\ IF init.index = "None"
           THEN \* lines 195-197
                /\ screen' = [BlankScreen EXCEPT
                                 !.errors = Append(init.errors, KbNotLoaded)]
                /\ call' = [fn |-> "main", stage |-> "returned", clicked |-> TRUE,
                            args |-> in, index |-> init.index, trace |-> <<>>]
                /\ UNCHANGED <<rank, log>>
           ELSE \E retrieved \in
                    {[raised |-> TRUE, nodes |-> <<>>]}
                    \cup {[raised |-> FALSE, nodes |-> r] : r \in Rankings} :
                \E out \in {main_try([BlankScreen EXCEPT !.errors = init.errors],
                                     in, retrieved, clock + 1)} :
                \E query \in {Query(out.health_data)} :
                    \* the store ranks a query the way it ranked it before
                    /\ ("retrieve" \in Atoms(out.trace) /\ ~retrieved.raised
                        /\ query \in DOMAIN rank) => retrieved.nodes = rank[query]
                    /\ rank' = IF "retrieve" \in Atoms(out.trace) /\ ~retrieved.raised
                               THEN [q \in DOMAIN rank \cup {query} |->
                                        IF q = query THEN retrieved.nodes
                                        ELSE rank[q]]
                               ELSE rank
                    /\ screen' = [out.page EXCEPT !.disclaimer = TRUE]
                    /\ log' = IF out.page.markdown # <<>>
                              THEN log \cup {[inputs |-> in, time |-> clock + 1,
                                              text |-> out.page.markdown]}
                              ELSE log
                    /\ call' = [fn |-> "main", stage |-> "returned",
                                clicked |-> TRUE, args |-> in,
                                index |-> init.index, trace |-> out.trace,
                                retrieved |-> retrieved,
                                health_data |-> out.health_data]

Next == Rerun \/ Submit

Spec == InitMain /\ [][Next]_vars

----------------------------------------------------------------------------
(* Claims about analyze_health, checked under SpecAnalyze. *)

WeightCategories == {"Underweight", "Normal weight", "Overweight", "Obese"}

AnalyzeReturned == call.fn = "analyze_health" /\ call.stage = "returned"

PositiveBody == call.args.weight > 0 /\ call.args.height > 0

Bp_140_90 == <<"1", "4", "0", "/", "9", "0">>
Bp_139_89 == <<"1", "3", "9", "/", "8", "9">>
Bp_140_89 == <<"1", "4", "0", "/", "8", "9">>
Bp_139_90 == <<"1", "3", "9", "/", "9", "0">>
Bp_abc == <<"a", "b", "c">>

\* C1: for weight > 0 and height > 0, whatever the other arguments, the returned
\* condition list holds exactly one weight-category label, at position 0.
C1_WeightLabelFirst ==
    (AnalyzeReturned /\ PositiveBody) =>
        /\ call.out.raised = "none"
        /\ LET conditions == call.out.results.conditions
           IN  /\ Len(conditions) >= 1
               /\ conditions[1] \in WeightCategories
               /\ \A i \in 2..Len(conditions) : conditions[i] \notin WeightCategories

C1_Witness ==
    /\ AnalyzeReturned /\ PositiveBody
    /\ call.args.bp = Bp_abc
    /\ call.out.results.conditions = <<"Overweight", "High Blood Sugar", "High Cholesterol">>

\* C2: when the blood pressure string parses, the labels after the weight label are
\* Hypertension iff systolic >= 140 or diastolic >= 90, High Blood Sugar iff
\* sugar >= 126, High Cholesterol iff cholesterol >= 200, in that order, none twice;
\* 140/90, 126 and 200 give the label, 139/89, 125 and 199 do not.
C2_ThresholdLabels ==
    (AnalyzeReturned /\ call.out.raised = "none" /\ ParseBp(call.args.bp).ok) =>
        LET a == call.args
            conditions == call.out.results.conditions
            present(l) ==
                \/ l = "Hypertension"
                   /\ (ParseBp(a.bp).systolic >= 140 \/ ParseBp(a.bp).diastolic >= 90)
                \/ l = "High Blood Sugar" /\ a.sugar >= 126
                \/ l = "High Cholesterol" /\ a.cholesterol >= 200
            hyper == \E i \in 1..Len(conditions) : conditions[i] = "Hypertension"
        IN  /\ Tail(conditions) =
                 SelectSeq(<<"Hypertension", "High Blood Sugar", "High Cholesterol">>,
                           present)
            /\ a.bp \in {Bp_140_90, Bp_140_89, Bp_139_90} => hyper
            /\ a.bp = Bp_139_89 => ~hyper

C2_Witness ==
    /\ AnalyzeReturned
    /\ call.args.bp = Bp_140_90 /\ call.args.sugar = 126 /\ call.args.cholesterol = 200
    /\ Tail(call.out.results.conditions) =
           <<"Hypertension", "High Blood Sugar", "High Cholesterol">>

\* The bracket of the exact quotient weight / (height/100)^2.
ExactBracket(weight, height) ==
    IF 2 * 10000 * weight < 37 * height * height THEN "Underweight"
    ELSE IF 10000 * weight < 25 * height * height THEN "Normal weight"
    ELSE IF 10000 * weight < 30 * height * height THEN "Overweight"
    ELSE "Obese"

\* C3 as stated: the weight label is the bracket of the BMI value
\* weight / (height/100)^2 itself, so a BMI strictly below a boundary lands in the
\* lower bracket.
C3_Original ==
    (AnalyzeReturned /\ PositiveBody) =>
        call.out.results.conditions[1] = ExactBracket(call.args.weight, call.args.height)

\* C3 amended: the weight label is the bracket of the BMI rounded to one decimal,
\* the reported bmi, which is the tenth nearest to weight / (height/100)^2: below
\* 18.5 Underweight, 18.5 up to 25 Normal weight, 25 up to 30 Overweight, 30 and
\* above Obese, where a rounded value of exactly 18.5, 25.0 or 30.0 is in the upper
\* bracket.
C3_RoundedBracket ==
    (AnalyzeReturned /\ PositiveBody) =>
        LET w == call.args.weight
            h == call.args.height
            bmi == call.out.results.bmi
            diff == bmi * h * h - 100000 * w
            label == call.out.results.conditions[1]
        IN  /\ 2 * diff <= h * h /\ 2 * (0 - diff) <= h * h
            /\ (label = "Underweight") = (bmi < 185)
            /\ (label = "Normal weight") = (185 <= bmi /\ bmi < 250)
            /\ (label = "Overweight") = (250 <= bmi /\ bmi < 300)
            /\ (label = "Obese") = (bmi >= 300)

\* weight 80, height 179: the BMI is 24.97, reported as 25.0 and labelled Overweight.
C3_Witness ==
    /\ AnalyzeReturned
    /\ call.args.weight = 80 /\ call.args.height = 179
    /\ call.out.results.bmi = 250
    /\ call.out.results.conditions[1] = "Overweight"

\* C7 as stated: a call with height <= 0 or weight <= 0 fails with an invalid-input
\* error before the BMI is computed, and yields no BMI, label or condition list.
C7_Original ==
    (AnalyzeReturned /\ ~PositiveBody) => call.out.raised = "InvalidInputError"

----------------------------------------------------------------------------
(* Claims about the generation stage, checked under SpecGenerate. *)

GenerateReturned == call.fn = "generate_diet_plan" /\ call.stage = "returned"

\* The members of a finite set of integers, in increasing order.
Ascending(S) ==
    [k \in 1..Cardinality(S) |-> CHOOSE p \in S : Cardinality({q \in S : q <= p}) = k]

\* The lines of context that, trimmed, begin with "- ", in source order and trimmed,
\* stated on the positions of context: a line runs from a position that follows a
\* line break (or from position 1) up to the next line break.
MarkedLines(context) ==
    LET n == Len(context)
        starts == {i \in 1..(n + 1) : i = 1 \/ context[i - 1] = NL}
        stop(st) == CHOOSE j \in st..(n + 1) :
                        /\ j = n + 1 \/ context[j] = NL
                        /\ \A k \in st..(j - 1) : context[k] # NL
        solid(st) == {i \in st..(stop(st) - 1) : context[i] \notin Whitespace}
        first(st) == CHOOSE i \in solid(st) : \A j \in solid(st) : i <= j
        last(st) == CHOOSE i \in solid(st) : \A j \in solid(st) : i >= j
        marked == {st \in starts :
                      /\ solid(st) # {}
                      /\ context[first(st)] = "-"
                      /\ first(st) + 1 < last(st)
                      /\ context[first(st) + 1] = " "}
        order == Ascending(marked)
    IN  [k \in 1..Len(order) |-> SubSeq(context, first(order[k]), last(order[k]))]

\* C5: the recommendation list used in the plan is either exactly the lines of the
\* context that, trimmed, begin with "- " (in source order, marker included) when
\* there is one, or exactly the fixed three-item list otherwise; never a mix.
C5_ExtractedOrDefault ==
    GenerateReturned =>
        LET context == call.args.context
            recommendations == call.out.recommendations
            expected ==
                IF MarkedLines(context) # <<>> THEN MarkedLines(context)
                ELSE << <<"Balanced nutrition with variety of foods">>,
                        <<"Stay hydrated (8 glasses of water daily)">>,
                        <<"Regular meal timings">> >>
            text == call.out.text
            bullet(rec) == <<"-", " ">> \o rec
            block == Join(<<NL>>, [i \in 1..Len(expected) |-> bullet(expected[i])])
        IN  /\ recommendations = expected
            /\ ~call.out.isNone =>
                 \E p \in 1..Len(text) :
                    /\ text[p] = "### Dietary Recommendations:"
                    /\ SubSeq(text, p + 1, p + Len(block) + 4)
                         = <<NL>> \o block \o <<NL, NL, "### Sample Daily Meal Plan:">>

\* Two marked lines around an unmarked one.
C5_Witness ==
    /\ GenerateReturned
    /\ ~call.out.isNone
    /\ call.args.context = <<"-", " ", "a", NL, "a", NL, "-", " ", "b">>
    /\ call.out.recommendations = << <<"-", " ", "a">>, <<"-", " ", "b">> >>

\* C9: the generation stage ends in exactly one of two outcomes: a complete plan
\* (header, condition list, recommendation bullets, the five meal slots, the
\* lifestyle block) is shown, or a failure is reported and no plan text is shown;
\* when rendering fails (the condition list is empty or missing) generate_diet_plan
\* returns no document and the caller reports the failure.
C9_PlanOrFailure ==
    GenerateReturned =>
        LET health_data == call.args.health_data
            text == call.out.text
            unrenderable == \/ "conditions" \notin DOMAIN health_data
                            \/ health_data.conditions = <<>>
        IN  /\ call.out.isNone = unrenderable
            /\ call.out.isNone =>
                 /\ text = <<>>
                 /\ screen.markdown = <<>> /\ screen.download = <<>>
                 /\ screen.success = <<>>
                 /\ screen.errors = <<"Failed to generate plan. Please try again.">>
            /\ ~call.out.isNone =>
                 /\ screen.errors = <<>>
                 /\ screen.success # <<>>
                 /\ screen.markdown = text
                 /\ screen.download[1] = text
                 /\ {"## Personalized Diet Plan for ", "### Health Summary:",
                     "- **Identified Conditions:** ", "### Dietary Recommendations:",
                     "### Sample Daily Meal Plan:", "### Lifestyle Advice:",
                     "Breakfast", "Morning Snack", "Lunch", "Afternoon Snack", "Dinner",
                     "- Engage in 30 minutes of moderate exercise daily",
                     "- Practice stress-reduction techniques",
                     "- Get 7-8 hours of quality sleep",
                     "- Regular health checkups"} \subseteq Atoms(text)
                 /\ \A i \in 1..Len(health_data.conditions) :
                        health_data.conditions[i] \in Atoms(text)
                 /\ \A i \in 1..Len(call.out.recommendations) :
                        Atoms(call.out.recommendations[i]) \subseteq Atoms(text)
                 /\ Len(text) >= 2 /\ text[Len(text) - 1] = PlanFooter

C9_Witness ==
    /\ GenerateReturned
    /\ call.args.health_data.conditions = <<>>
    /\ call.out.isNone
    /\ screen.errors = <<GenerateFailed>>

----------------------------------------------------------------------------
(* Claims about the application, checked under Spec. *)

\* The latest script run was a request that found the knowledge base loaded.
RequestServed ==
    call.fn = "main" /\ call.stage = "returned" /\ call.clicked /\ call.index = "index"

MalformedBps == {
    <<"a", "b", "c">>,
    <<"1", "2", "0">>,
    <<"1", "/", "2", "/", "3">>,
    <<"1", "5", "0", "/", "a", "b", "c">> }

\* C4: a blood pressure string that does not split into two integers does not abort
\* the request: Hypertension is omitted, the glucose and cholesterol rules are
\* evaluated as for a well-formed string, analyze_health returns, and the pipeline
\* goes on to retrieval and, when retrieval answers, to plan generation.
C4_MalformedBpContinues ==
    (RequestServed /\ call.args.bp \in MalformedBps) =>
        LET conditions == call.health_data.conditions
        IN  /\ "conditions" \in DOMAIN call.health_data
            /\ "Hypertension" \notin Atoms(conditions)
            /\ ("High Blood Sugar" \in Atoms(conditions)) = (call.args.sugar >= 126)
            /\ ("High Cholesterol" \in Atoms(conditions)) = (call.args.cholesterol >= 200)
            /\ BpError \in Atoms(screen.errors)
            /\ Len(call.trace) >= 2
            /\ call.trace[1] = "analyze_health" /\ call.trace[2] = "retrieve"
            /\ ~call.retrieved.raised =>
                 /\ call.trace = <<"analyze_health", "retrieve", "generate_diet_plan">>
                 /\ screen.markdown # <<>>
                 /\ screen.errors = <<BpError>>

\* "150/abc" with cholesterol 210: a plan for Normal weight, High Cholesterol.
C4_Witness ==
    /\ RequestServed
    /\ call.args.bp = <<"1", "5", "0", "/", "a", "b", "c">>
    /\ call.health_data.conditions = <<"Normal weight", "High Cholesterol">>
    /\ screen.markdown # <<>>

\* C6 as stated: once initialize_health_index has returned None, every later
\* request is rejected, no plan is ever produced and the initialization is never
\* run again, so health_index stays None.
C6_Original ==
    [][health_index = "None" => (health_index' = "None" /\ screen'.markdown = <<>>)]_vars

\* C8 as stated: when retrieval fails during a request, the request goes on as if
\* the context were empty and shows a plan with the three default recommendations.
C8_Original ==
    (RequestServed /\ call.retrieved.raised) =>
        screen.markdown = PlanText(call.health_data, DefaultRecommendations)

\* C8 amended: when retrieval fails during a request, the request is aborted: plan
\* generation is not entered, no plan is shown and the failure is reported; a
\* retrieval that answers with no document gives a plan with the three default
\* recommendations.
C8_RetrievalErrorAborts ==
    RequestServed =>
        /\ call.retrieved.raised =>
             /\ call.trace = <<"analyze_health", "retrieve">>
             /\ screen.markdown = <<>> /\ screen.download = <<>>
             /\ screen.success = <<>>
             /\ screen.errors # <<>>
             /\ screen.errors[Len(screen.errors)]
                  = "Failed to generate plan. Please check your inputs and try again."
        /\ (~call.retrieved.raised /\ call.retrieved.nodes = <<>>) =>
             /\ screen.markdown # <<>>
             /\ {"Balanced nutrition with variety of foods",
                 "Stay hydrated (8 glasses of water daily)",
                 "Regular meal timings"} \subseteq Atoms(screen.markdown)

C8_Witness ==
    /\ RequestServed
    /\ call.retrieved.raised
    /\ screen.errors = <<SystemFailed>>
    /\ screen.markdown = <<>>

\* C10: two requests with the same health metrics, served by the same store, show
\* the same plan text, whenever they are made and whatever was requested before.
C10_SameInputsSamePlan ==
    \A e1, e2 \in log : e1.inputs = e2.inputs => e1.text = e2.text

\* The same metrics submitted at two different times.
C10_Witness ==
    \E e1, e2 \in log : e1.inputs = e2.inputs /\ e1.time # e2.time

====
